---- MODULE Spec2Model ----
(***************************************************************************)
(* The in-memory store of src/services/mockApi.ts: three module-level      *)
(* arrays (users, courses, feedbacks) and the api object's operations.     *)
(*                                                                         *)
(* Strings are abstracted to small integers: an id `user-3` is 3, a name   *)
(* is its rank under localeCompare, an email/password/message is a tag.    *)
(* A Date is an integer number of days.  JavaScript objects have identity: *)
(* a User carries the field obj, the identity of the object that holds it, *)
(* so that an in-place assignment (user.password = ...) is seen through    *)
(* every reference to that object, and a spread ({...user, ...data})       *)
(* makes a new object.                                                     *)
(*                                                                         *)
(* ret is the outcome of the last call, fixed when the call is made.  The  *)
(* promise a call returns settles later, when its timer fires: pending     *)
(* holds the promises that have not settled, settled the outcomes that     *)
(* were delivered.  Spec and the other specifications of single callers    *)
(* leave both empty; AsyncSpec issues calls while earlier ones are         *)
(* pending.                                                                *)
(***************************************************************************)
EXTENDS Integers, Sequences, FiniteSets, TLC

VARIABLES users, courses, feedbacks, now, held, ret, calls, again, pending, settled

vars == <<users, courses, feedbacks, now, held, ret, calls, again, pending, settled>>

(* ---------------------------- bounds ----------------------------------- *)
\* how many calls a run makes
MaxCalls == 2
\* how many times the clock is seen to have advanced after start-up
MaxTicks == 1
\* the largest page number and page size a caller asks for
MaxPage == 1
MaxLimit == 1
\* the same, and the longest collection, in the pagination specification
MaxListPage == 6
MaxListLimit == 5
MaxItems == 23

(* -------------------------- program constants -------------------------- *)
STUDENT == "student"
ADMIN == "admin"

\* the clock value when createInitialData runs
SeedNow == 100
\* j * 1000 * 3600 * 24 * 7 milliseconds, in days
Week == 7

\* error messages of the rejected promises
ErrInvalidCredentials == "Invalid credentials"
ErrBlocked == "Your account is blocked."
ErrEmailExists == "Email already exists"
ErrUserNotFound == "User not found"
ErrCurrentPassword == "Invalid current password"
ErrCourseNotFound == "Course not found"
ErrFeedbackNotFound == "Feedback not found"

\* the error kinds of the specification's taxonomy, by message
ErrorKind(msg) ==
    CASE msg = ErrInvalidCredentials -> "InvalidCredentials"
      [] msg = ErrBlocked -> "AccountBlocked"
      [] msg = ErrEmailExists -> "EmailExists"
      [] msg \in {ErrUserNotFound, ErrCourseNotFound, ErrFeedbackNotFound} -> "NotFound"
      [] msg = ErrCurrentPassword -> "WrongOldPassword"
      [] OTHER -> "none"

(* ------------------------------ inputs --------------------------------- *)
\* values callers may pass: one that the seed uses and a new one
Names == {9}
Emails == {1, 9}
Passwords == {1, 9}
NewPasswords == {9}
\* the ids of the start state and the next one of each collection
UserIds == {1, 2, 3}
CourseIds == {1, 2}
FeedbackIds == {1, 2}
\* Number.POSITIVE_INFINITY, the page size of exportToCSV
Infinity == 0 - 1
Pages == 1 .. MaxPage
Limits == (1 .. MaxLimit) \cup {Infinity}

NoUser == [obj |-> 0]
NoArgs == [none |-> TRUE]
Ok == "ok"

(* ------------------------------ helpers -------------------------------- *)
\* Array.prototype.filter
Filter(s, Keep(_)) == SelectSeq(s, Keep)

\* Array.prototype.find, as the index of the first match (0: undefined)
FindIdx(s, Test(_)) ==
    IF \E i \in 1 .. Len(s) : Test(s[i])
    THEN CHOOSE i \in 1 .. Len(s) : Test(s[i]) /\ \A j \in 1 .. (i - 1) : ~Test(s[j])
    ELSE 0

\* object spread { ...rec, ...data }
Spread(rec, data) ==
    [f \in (DOMAIN rec) \cup (DOMAIN data) |->
        IF f \in DOMAIN data THEN data[f] ELSE rec[f]]

\* the fields of a User object, without the object's identity
UserFields == {"id", "name", "email", "password", "role", "isBlocked", "createdAt", "profile"}
Content(u) == [f \in UserFields |-> u[f]]

\* an object identity no live reference uses
FreshObj ==
    CHOOSE o \in 1 .. (Len(users) + 2) :
        /\ o \notin {users[i].obj : i \in 1 .. Len(users)} \cup {held.obj}
        /\ \A p \in 1 .. (o - 1) :
              p \in {users[i].obj : i \in 1 .. Len(users)} \cup {held.obj}

\* obj.field = value, seen through every reference to the object
Assign(u, o, field, value) == IF u.obj = o THEN [u EXCEPT ![field] = value] ELSE u

(* ------------------------------- seed ---------------------------------- *)
\* createInitialData: the admin, the student, then the additional students
SeedUser(i) ==
    IF i = 1 THEN
        [id |-> 1, name |-> 1, email |-> 1, password |-> 1, role |-> ADMIN,
         isBlocked |-> FALSE, createdAt |-> SeedNow, profile |-> 1, obj |-> 1]
    ELSE IF i = 2 THEN
        [id |-> 2, name |-> 2, email |-> 2, password |-> 2, role |-> STUDENT,
         isBlocked |-> FALSE, createdAt |-> SeedNow, profile |-> 2, obj |-> 2]
    ELSE
        [id |-> i, name |-> i, email |-> i, password |-> 3, role |-> STUDENT,
         isBlocked |-> (i % 4 = 0), createdAt |-> SeedNow - i, profile |-> 0, obj |-> i]

SeedCourse(i) ==
    [id |-> i, name |-> i, description |-> i, link |-> i, thumbnail |-> i,
     createdAt |-> SeedNow]

\* feedback j of student i; the course c and the rating r are random
SeedFeedback(i, j, c, r) ==
    [id |-> (i - 2) * 5 + j, studentId |-> i,
     studentName |-> SeedUser(i).name, courseId |-> c, rating |-> r,
     message |-> 10 * c + (IF r > 3 THEN 1 ELSE 0),
     createdAt |-> SeedNow - j * Week]

\* The store a run starts from: what createInitialData builds, after the
\* administrator has deleted the users 3..22 (and with them their feedback)
\* and the courses 2..10, and the student the feedbacks 2..5.  The feedback
\* that is left drew course 1; its rating is any of the five.
createInitialData ==
    /\ users = <<SeedUser(1), SeedUser(2)>>
    /\ courses = <<SeedCourse(1)>>
    /\ \E r \in 1 .. 5 : feedbacks = <<SeedFeedback(2, 1, 1, r)>>

Init ==
    /\ createInitialData
    /\ now = SeedNow
    /\ held = NoUser
    /\ ret = [op |-> "init", args |-> NoArgs, err |-> Ok, val |-> 0]
    /\ calls = 0
    /\ again = FALSE
    /\ pending = <<>>
    /\ settled = {}

(* --------------------------- the clock --------------------------------- *)
\* new Date(): the clock shows the time of the last reading or a later one
Clock == {now} \cup (IF now < SeedNow + MaxTicks THEN {now + 1} ELSE {})

(* ------------------------------ users ---------------------------------- *)
\* login that does not look at isBlocked
loginNoBlockCheck(email, password) ==
    LET i == FindIdx(users, LAMBDA u : u.email = email /\ u.password = password)
        args == [email |-> email, password |-> password]
    IN  /\ UNCHANGED <<users, courses, feedbacks, now>>
        /\ IF i = 0 THEN
               /\ ret' = [op |-> "login", args |-> args, err |-> ErrInvalidCredentials, val |-> 0]
               /\ UNCHANGED held
           ELSE
               /\ ret' = [op |-> "login", args |-> args, err |-> Ok, val |-> Content(users[i])]
               /\ held' = users[i]

login(email, password) ==
    LET i == FindIdx(users, LAMBDA u : u.email = email /\ u.password = password)
        args == [email |-> email, password |-> password]
    IN  /\ UNCHANGED <<users, courses, feedbacks, now>>
        /\ IF i = 0 THEN
               /\ ret' = [op |-> "login", args |-> args, err |-> ErrInvalidCredentials, val |-> 0]
               /\ UNCHANGED held
           ELSE IF users[i].isBlocked THEN
               /\ ret' = [op |-> "login", args |-> args, err |-> ErrBlocked, val |-> 0]
               /\ UNCHANGED held
           ELSE
               /\ ret' = [op |-> "login", args |-> args, err |-> Ok, val |-> Content(users[i])]
               /\ held' = users[i]

\* signup that appends before it looks for the email
signupPushFirst(name, email, password) ==
    LET args == [name |-> name, email |-> email, password |-> password]
        newUser == [id |-> Len(users) + 1, name |-> name, email |-> email,
                    password |-> password, role |-> STUDENT, isBlocked |-> FALSE,
                    createdAt |-> now, profile |-> 0, obj |-> FreshObj]
    IN  /\ UNCHANGED <<courses, feedbacks, now, held>>
        /\ users' = Append(users, newUser)
        /\ IF \E i \in 1 .. Len(users) : users[i].email = email THEN
               ret' = [op |-> "signup", args |-> args, err |-> ErrEmailExists, val |-> 0]
           ELSE
               ret' = [op |-> "signup", args |-> args, err |-> Ok, val |-> Content(newUser)]

signup(name, email, password) ==
    LET args == [name |-> name, email |-> email, password |-> password]
        newUser == [id |-> Len(users) + 1, name |-> name, email |-> email,
                    password |-> password, role |-> STUDENT, isBlocked |-> FALSE,
                    createdAt |-> now', profile |-> 0, obj |-> FreshObj]
    IN  /\ UNCHANGED <<courses, feedbacks, held>>
        /\ IF \E i \in 1 .. Len(users) : users[i].email = email THEN
               /\ ret' = [op |-> "signup", args |-> args, err |-> ErrEmailExists, val |-> 0]
               /\ UNCHANGED <<users, now>>
           ELSE
               /\ now' \in Clock
               /\ users' = Append(users, newUser)
               /\ ret' = [op |-> "signup", args |-> args, err |-> Ok, val |-> Content(newUser)]

\* an update that also writes the new name into the user's feedbacks
updateProfileRenameFeedback(userId, data) ==
    LET i == FindIdx(users, LAMBDA u : u.id = userId)
        args == [userId |-> userId, data |-> data]
        user == [Spread(users[i], data) EXCEPT !["obj"] = FreshObj]
    IN  /\ UNCHANGED <<courses, now, held>>
        /\ IF i = 0 THEN
               /\ ret' = [op |-> "updateProfile", args |-> args, err |-> ErrUserNotFound, val |-> 0]
               /\ UNCHANGED <<users, feedbacks>>
           ELSE
               /\ users' = [k \in 1 .. Len(users) |->
                              IF users[k].id = userId THEN user ELSE users[k]]
               /\ feedbacks' = [k \in 1 .. Len(feedbacks) |->
                                  IF feedbacks[k].studentId = userId
                                  THEN [feedbacks[k] EXCEPT !.studentName = user.name]
                                  ELSE feedbacks[k]]
               /\ ret' = [op |-> "updateProfile", args |-> args, err |-> Ok, val |-> Content(user)]

updateProfile(userId, data) ==
    LET i == FindIdx(users, LAMBDA u : u.id = userId)
        args == [userId |-> userId, data |-> data]
        user == [Spread(users[i], data) EXCEPT !["obj"] = FreshObj]
    IN  /\ UNCHANGED <<courses, feedbacks, now, held>>
        /\ IF i = 0 THEN
               /\ ret' = [op |-> "updateProfile", args |-> args, err |-> ErrUserNotFound, val |-> 0]
               /\ UNCHANGED users
           ELSE
               /\ users' = [k \in 1 .. Len(users) |->
                              IF users[k].id = userId THEN user ELSE users[k]]
               /\ ret' = [op |-> "updateProfile", args |-> args, err |-> Ok, val |-> Content(user)]

\* the password written before the old one is compared
changePasswordWriteFirst(userId, oldPass, newPass) ==
    LET i == FindIdx(users, LAMBDA u : u.id = userId)
        args == [userId |-> userId, oldPass |-> oldPass, newPass |-> newPass]
    IN  /\ UNCHANGED <<courses, feedbacks, now>>
        /\ IF i = 0 THEN
               /\ ret' = [op |-> "changePassword", args |-> args, err |-> ErrCurrentPassword, val |-> 0]
               /\ UNCHANGED <<users, held>>
           ELSE
               /\ users' = [k \in 1 .. Len(users) |->
                              Assign(users[k], users[i].obj, "password", newPass)]
               /\ held' = Assign(held, users[i].obj, "password", newPass)
               /\ ret' = [op |-> "changePassword", args |-> args,
                          err |-> IF users[i].password # oldPass THEN ErrCurrentPassword ELSE Ok,
                          val |-> IF users[i].password # oldPass THEN 0 ELSE TRUE]

changePassword(userId, oldPass, newPass) ==
    LET i == FindIdx(users, LAMBDA u : u.id = userId)
        args == [userId |-> userId, oldPass |-> oldPass, newPass |-> newPass]
    IN  /\ UNCHANGED <<courses, feedbacks, now>>
        /\ IF i = 0 \/ users[i].password # oldPass THEN
               /\ ret' = [op |-> "changePassword", args |-> args, err |-> ErrCurrentPassword, val |-> 0]
               /\ UNCHANGED <<users, held>>
           ELSE
               /\ users' = [k \in 1 .. Len(users) |->
                              Assign(users[k], users[i].obj, "password", newPass)]
               /\ held' = Assign(held, users[i].obj, "password", newPass)
               /\ ret' = [op |-> "changePassword", args |-> args, err |-> Ok, val |-> TRUE]

updateUserStatus(id, isBlocked) ==
    LET i == FindIdx(users, LAMBDA u : u.id = id)
        args == [id |-> id, isBlocked |-> isBlocked]
    IN  /\ UNCHANGED <<courses, feedbacks, now>>
        /\ IF i = 0 THEN
               /\ ret' = [op |-> "updateUserStatus", args |-> args, err |-> ErrUserNotFound, val |-> 0]
               /\ UNCHANGED <<users, held>>
           ELSE
               /\ users' = [k \in 1 .. Len(users) |->
                              Assign(users[k], users[i].obj, "isBlocked", isBlocked)]
               /\ held' = Assign(held, users[i].obj, "isBlocked", isBlocked)
               /\ ret' = [op |-> "updateUserStatus", args |-> args, err |-> Ok,
                          val |-> Content(users'[i])]

\* deleteUser that leaves the user's feedback
deleteUserNoCascade(id) ==
    /\ users' = Filter(users, LAMBDA u : u.id # id)
    /\ ret' = [op |-> "deleteUser", args |-> [id |-> id], err |-> Ok, val |-> TRUE]
    /\ UNCHANGED <<courses, feedbacks, now, held>>

\* deleteUser by users.splice(users.findIndex(...), 1): index -1 is the last element
deleteUserSplice(id) ==
    LET i == FindIdx(users, LAMBDA u : u.id = id)
        at == IF i = 0 THEN Len(users) ELSE i
    IN  /\ users' = [k \in 1 .. (Len(users) - (IF users = <<>> THEN 0 ELSE 1)) |->
                        IF k < at THEN users[k] ELSE users[k + 1]]
        /\ feedbacks' = Filter(feedbacks, LAMBDA f : f.studentId # id)
        /\ ret' = [op |-> "deleteUser", args |-> [id |-> id], err |-> Ok, val |-> TRUE]
        /\ UNCHANGED <<courses, now, held>>

deleteUser(id) ==
    /\ users' = Filter(users, LAMBDA u : u.id # id)
    /\ feedbacks' = Filter(feedbacks, LAMBDA f : f.studentId # id)
    /\ ret' = [op |-> "deleteUser", args |-> [id |-> id], err |-> Ok, val |-> TRUE]
    /\ UNCHANGED <<courses, now, held>>

(* ------------------------------ courses -------------------------------- *)
getCourses ==
    /\ ret' = [op |-> "getCourses", args |-> NoArgs, err |-> Ok, val |-> courses]
    /\ UNCHANGED <<users, courses, feedbacks, now, held>>

\* the id taken from courses.length, without the + 1
addCourseIdIsLength(data) ==
    LET newCourse == Spread(Spread(data, [id |-> Len(courses)]), [createdAt |-> now'])
    IN  /\ now' \in Clock
        /\ courses' = Append(courses, newCourse)
        /\ ret' = [op |-> "addCourse", args |-> [data |-> data], err |-> Ok, val |-> newCourse]
        /\ UNCHANGED <<users, feedbacks, held>>

addCourse(data) ==
    LET newCourse == Spread(Spread(data, [id |-> Len(courses) + 1]), [createdAt |-> now'])
    IN  /\ now' \in Clock
        /\ courses' = Append(courses, newCourse)
        /\ ret' = [op |-> "addCourse", args |-> [data |-> data], err |-> Ok, val |-> newCourse]
        /\ UNCHANGED <<users, feedbacks, held>>

updateCourse(id, data) ==
    LET i == FindIdx(courses, LAMBDA c : c.id = id)
        args == [id |-> id, data |-> data]
        course == Spread(courses[i], data)
    IN  /\ UNCHANGED <<users, feedbacks, now, held>>
        /\ IF i = 0 THEN
               /\ ret' = [op |-> "updateCourse", args |-> args, err |-> ErrCourseNotFound, val |-> 0]
               /\ UNCHANGED courses
           ELSE
               /\ courses' = [k \in 1 .. Len(courses) |->
                                IF courses[k].id = id THEN course ELSE courses[k]]
               /\ ret' = [op |-> "updateCourse", args |-> args, err |-> Ok, val |-> course]

\* a delete that also drops the feedback given to the course
deleteCourseCascade(id) ==
    /\ courses' = Filter(courses, LAMBDA c : c.id # id)
    /\ feedbacks' = Filter(feedbacks, LAMBDA f : f.courseId # id)
    /\ ret' = [op |-> "deleteCourse", args |-> [id |-> id], err |-> Ok, val |-> TRUE]
    /\ UNCHANGED <<users, now, held>>

deleteCourse(id) ==
    /\ courses' = Filter(courses, LAMBDA c : c.id # id)
    /\ ret' = [op |-> "deleteCourse", args |-> [id |-> id], err |-> Ok, val |-> TRUE]
    /\ UNCHANGED <<users, feedbacks, now, held>>

(* ----------------------------- pagination ------------------------------ *)
Min(a, b) == IF a < b THEN a ELSE b

\* Math.floor in the place of Math.ceil
CeilFloor(total, limit) ==
    IF limit = Infinity THEN 0 ELSE total \div limit

\* Math.ceil(total / limit); total / Infinity is 0
Ceil(total, limit) ==
    IF limit = Infinity THEN 0 ELSE (total + limit - 1) \div limit

\* items.slice(start, end) with the bounds (page - 1) * limit and
\* page * limit; 0 * Infinity is NaN, which slice reads as 0
Slice(items, page, limit) ==
    LET start == IF limit = Infinity
                 THEN (IF page = 1 THEN 0 ELSE Len(items))
                 ELSE Min((page - 1) * limit, Len(items))
        end == IF limit = Infinity THEN Len(items) ELSE Min(page * limit, Len(items))
    IN  SubSeq(items, start + 1, end)

paginate(items, page, limit) ==
    [data |-> Slice(items, page, limit),
     total |-> Len(items),
     totalPages |-> Ceil(Len(items), limit)]

\* Array.prototype.sort (stable) under a comparator that is negative
\* exactly when Before(a, b)
Sort(s, Before(_, _)) ==
    LET rank == [i \in 1 .. Len(s) |->
                    1 + Cardinality({j \in 1 .. Len(s) :
                        Before(s[j], s[i]) \/ (~Before(s[i], s[j]) /\ j < i)})]
    IN  [p \in 1 .. Len(s) |-> s[CHOOSE i \in 1 .. Len(s) : rank[i] = p]]

(* ------------------------------ feedback ------------------------------- *)
\* the comparator a.createdAt - b.createdAt in the place of b.createdAt - a.createdAt
studentFeedbacksAscending(fb, studentId) ==
    Sort(Filter(fb, LAMBDA f : f.studentId = studentId),
         LAMBDA a, b : a.createdAt - b.createdAt < 0)

studentFeedbacks(fb, studentId) ==
    Sort(Filter(fb, LAMBDA f : f.studentId = studentId),
         LAMBDA a, b : b.createdAt - a.createdAt < 0)

getStudentFeedbackResult(fb, studentId, page, limit) ==
    paginate(studentFeedbacks(fb, studentId), page, limit)

getStudentFeedback(studentId, page, limit) ==
    /\ ret' = [op |-> "getStudentFeedback",
               args |-> [studentId |-> studentId, page |-> page, limit |-> limit],
               err |-> Ok, val |-> getStudentFeedbackResult(feedbacks, studentId, page, limit)]
    /\ UNCHANGED <<users, courses, feedbacks, now, held>>

\* the rating filter applied to the whole collection, not to the records
\* the course filter kept
filteredFeedbacksLastFilterOnly(fb, filters) ==
    LET byCourse == IF filters.courseId # 0
                    THEN Filter(fb, LAMBDA f : f.courseId = filters.courseId) ELSE fb
        byRating == IF filters.rating # 0
                    THEN Filter(fb, LAMBDA f : f.rating = filters.rating) ELSE byCourse
    IN  Sort(byRating, LAMBDA a, b : b.createdAt - a.createdAt < 0)

\* a filter value of 0 stands for undefined; like '' and 0 it is falsy
filteredFeedbacks(fb, filters) ==
    LET byCourse == IF filters.courseId # 0
                    THEN Filter(fb, LAMBDA f : f.courseId = filters.courseId) ELSE fb
        byRating == IF filters.rating # 0
                    THEN Filter(byCourse, LAMBDA f : f.rating = filters.rating) ELSE byCourse
    IN  Sort(byRating, LAMBDA a, b : b.createdAt - a.createdAt < 0)

getAllFeedbackResult(fb, page, limit, filters) ==
    paginate(filteredFeedbacks(fb, filters), page, limit)

getAllFeedback(page, limit, filters) ==
    /\ ret' = [op |-> "getAllFeedback",
               args |-> [page |-> page, limit |-> limit, filters |-> filters],
               err |-> Ok, val |-> getAllFeedbackResult(feedbacks, page, limit, filters)]
    /\ UNCHANGED <<users, courses, feedbacks, now, held>>

\* feedbacks.push in the place of feedbacks.unshift
addFeedbackPush(feedbackData) ==
    LET newFeedback == Spread(Spread(feedbackData, [id |-> Len(feedbacks) + 1]),
                              [createdAt |-> now'])
    IN  /\ now' \in Clock
        /\ feedbacks' = Append(feedbacks, newFeedback)
        /\ ret' = [op |-> "addFeedback", args |-> [data |-> feedbackData], err |-> Ok,
                   val |-> newFeedback]
        /\ UNCHANGED <<users, courses, held>>

addFeedback(feedbackData) ==
    LET newFeedback == Spread(Spread(feedbackData, [id |-> Len(feedbacks) + 1]),
                              [createdAt |-> now'])
    IN  /\ now' \in Clock
        /\ feedbacks' = <<newFeedback>> \o feedbacks
        /\ ret' = [op |-> "addFeedback", args |-> [data |-> feedbackData], err |-> Ok,
                   val |-> newFeedback]
        /\ UNCHANGED <<users, courses, held>>

updateFeedback(id, data) ==
    LET i == FindIdx(feedbacks, LAMBDA f : f.id = id)
        args == [id |-> id, data |-> data]
        feedback == Spread(feedbacks[i], data)
    IN  /\ UNCHANGED <<users, courses, now, held>>
        /\ IF i = 0 THEN
               /\ ret' = [op |-> "updateFeedback", args |-> args, err |-> ErrFeedbackNotFound, val |-> 0]
               /\ UNCHANGED feedbacks
           ELSE
               /\ feedbacks' = [k \in 1 .. Len(feedbacks) |->
                                  IF feedbacks[k].id = id THEN feedback ELSE feedbacks[k]]
               /\ ret' = [op |-> "updateFeedback", args |-> args, err |-> Ok, val |-> feedback]

deleteFeedback(id) ==
    /\ feedbacks' = Filter(feedbacks, LAMBDA f : f.id # id)
    /\ ret' = [op |-> "deleteFeedback", args |-> [id |-> id], err |-> Ok, val |-> TRUE]
    /\ UNCHANGED <<users, courses, now, held>>

(* -------------------------- users, continued --------------------------- *)
\* b.name.localeCompare(a.name) in the place of a.name.localeCompare(b.name)
allUsersDescending(us) == Sort(us, LAMBDA a, b : b.name < a.name)

allUsers(us) == Sort(us, LAMBDA a, b : a.name < b.name)

getUsersResult(us, page, limit) ==
    LET r == paginate(allUsers(us), page, limit)
    IN  [r EXCEPT !.data = [k \in 1 .. Len(r.data) |-> Content(r.data[k])]]

\* users.sort(...) on the stored array, not on a copy
getUsersSortInPlace(page, limit) ==
    /\ ret' = [op |-> "getUsers", args |-> [page |-> page, limit |-> limit],
               err |-> Ok, val |-> getUsersResult(users, page, limit)]
    /\ users' = allUsers(users)
    /\ UNCHANGED <<courses, feedbacks, now, held>>

getUsers(page, limit) ==
    /\ ret' = [op |-> "getUsers", args |-> [page |-> page, limit |-> limit],
               err |-> Ok, val |-> getUsersResult(users, page, limit)]
    /\ UNCHANGED <<users, courses, feedbacks, now, held>>

(* ------------------------------ dashboard ------------------------------ *)
\* a count of the students that are not blocked
getDashboardStatsResultUnblocked(us, cs, fb) ==
    [studentCount |-> Len(Filter(us, LAMBDA u : u.role = STUDENT /\ ~u.isBlocked)),
     feedbackCount |-> Len(fb),
     courseCount |-> Len(cs)]

getDashboardStatsResult(us, cs, fb) ==
    [studentCount |-> Len(Filter(us, LAMBDA u : u.role = STUDENT)),
     feedbackCount |-> Len(fb),
     courseCount |-> Len(cs)]

getDashboardStats ==
    /\ ret' = [op |-> "getDashboardStats", args |-> NoArgs, err |-> Ok,
               val |-> getDashboardStatsResult(users, courses, feedbacks)]
    /\ UNCHANGED <<users, courses, feedbacks, now, held>>

\* the map the forEach over feedbacks builds: for each courseId met, the
\* sum and the number of its ratings
RECURSIVE ratingsMap(_)
ratingsMap(fb) ==
    IF fb = <<>> THEN [c \in {} |-> [total |-> 0, count |-> 0]]
    ELSE LET map == ratingsMap(SubSeq(fb, 1, Len(fb) - 1))
             f == fb[Len(fb)]
             current == IF f.courseId \in DOMAIN map THEN map[f.courseId]
                        ELSE [total |-> 0, count |-> 0]
         IN  [c \in DOMAIN map \cup {f.courseId} |->
                IF c = f.courseId
                THEN [total |-> current.total + f.rating, count |-> current.count + 1]
                ELSE map[c]]

\* the digits cut after the second decimal, not rounded
toFixedTruncating(total, count) == (100 * total) \div count

\* parseFloat((total / count).toFixed(2)), in hundredths: the multiple of
\* 0.01 nearest to the quotient, the larger one of two equally near
toFixed(total, count) == (200 * total + count) \div (2 * count)

\* the entry of one course; a course the map does not hold, or whose total
\* or count is 0, takes 0 and 1 in their place
courseRating(map, course) ==
    LET total == IF course.id \in DOMAIN map /\ map[course.id].total # 0
                 THEN map[course.id].total ELSE 0
        count == IF course.id \in DOMAIN map /\ map[course.id].count # 0
                 THEN map[course.id].count ELSE 1
    IN  [name |-> course.name, avgRating |-> toFixed(total, count)]

\* one entry for each key of the map, not for each course
courseRatingsOfMapKeys(cs, fb) ==
    LET map == ratingsMap(fb)
        keys == DOMAIN map
        key(p) == CHOOSE c \in keys : Cardinality({d \in keys : d < c}) = p - 1
        entry(c) == [name |-> c, avgRating |-> toFixed(map[c].total, map[c].count)]
    IN  Sort([p \in 1 .. Cardinality(keys) |-> entry(key(p))],
             LAMBDA a, b : b.avgRating - a.avgRating < 0)

\* the comparator a.avgRating - b.avgRating in the place of b.avgRating - a.avgRating
courseRatingsAscending(cs, fb) ==
    Sort([k \in 1 .. Len(cs) |-> courseRating(ratingsMap(fb), cs[k])],
         LAMBDA a, b : a.avgRating - b.avgRating < 0)

courseRatings(cs, fb) ==
    Sort([k \in 1 .. Len(cs) |-> courseRating(ratingsMap(fb), cs[k])],
         LAMBDA a, b : b.avgRating - a.avgRating < 0)

getCourseRatings ==
    /\ ret' = [op |-> "getCourseRatings", args |-> NoArgs, err |-> Ok,
               val |-> courseRatings(courses, feedbacks)]
    /\ UNCHANGED <<users, courses, feedbacks, now, held>>

(* ------------------------------ system --------------------------------- *)
\* partial records callers pass: the profile form's fields (Profile.tsx),
\* and single fields the store does not guard
UserPatches == {[name |-> 9, profile |-> 9], [email |-> 1], [id |-> 1], [role |-> ADMIN],
                [isBlocked |-> FALSE]}
\* the course form's fields (CoursesTab.handleSubmit)
CourseData == {[name |-> 9, description |-> 9, link |-> 9, thumbnail |-> 9]}
CoursePatches == CourseData \cup {[name |-> 8], [id |-> 1]}
\* the feedback form's fields (FeedbackForm.handleSubmit); the store takes any rating
FeedbackData ==
    {[studentId |-> s, studentName |-> s, courseId |-> 1, rating |-> r, message |-> 9] :
        s \in {2, 3}, r \in {4, 7}}
FeedbackPatches == {[rating |-> 2, message |-> 8], [id |-> 2], [studentId |-> 1]}
Filters == {[courseId |-> 0, rating |-> 0], [courseId |-> 1, rating |-> 0],
            [courseId |-> 0, rating |-> 4], [courseId |-> 1, rating |-> 4]}

UserOps ==
    \/ \E e \in Emails, p \in Passwords : login(e, p)
    \/ \E n \in Names, e \in Emails, p \in NewPasswords : signup(n, e, p)
    \/ \E i \in UserIds, d \in UserPatches : updateProfile(i, d)
    \/ \E i \in UserIds, o \in Passwords, n \in NewPasswords : changePassword(i, o, n)
    \/ \E i \in UserIds, b \in BOOLEAN : updateUserStatus(i, b)
    \/ \E i \in UserIds : deleteUser(i)

CourseOps ==
    \/ getCourses
    \/ \E d \in CourseData : addCourse(d)
    \/ \E i \in CourseIds, d \in CoursePatches : updateCourse(i, d)
    \/ \E i \in CourseIds : deleteCourse(i)

FeedbackOps ==
    \/ \E d \in FeedbackData : addFeedback(d)
    \/ \E i \in FeedbackIds, d \in FeedbackPatches : updateFeedback(i, d)
    \/ \E i \in FeedbackIds : deleteFeedback(i)

ListOps(pages, limits) ==
    \/ \E p \in pages, l \in limits : getUsers(p, l)
    \/ \E s \in UserIds, p \in pages, l \in limits : getStudentFeedback(s, p, l)
    \/ \E p \in pages, l \in limits, f \in Filters : getAllFeedback(p, l, f)

\* what DashboardTab.fetchData asks for
StatsOps ==
    \/ getDashboardStats
    \/ getCourseRatings

\* one call to the api; again tells that the caller repeats its last call
Call(Op, max) ==
    /\ calls < max
    /\ calls' = calls + 1
    /\ Op
    /\ again' = (ret'.op = ret.op /\ ret'.args = ret.args)
    /\ UNCHANGED <<pending, settled>>

Next ==
    \/ Call(UserOps, MaxCalls)
    \/ Call(CourseOps, MaxCalls)
    \/ Call(FeedbackOps, MaxCalls)
    \/ Call(ListOps(Pages, Limits), MaxCalls)
    \/ Call(StatsOps, MaxCalls)

Spec == Init /\ [][Next]_vars

(* ---------------- the list operations on longer collections ------------ *)
\* a store holding n users and n feedbacks; names and dates are neither in
\* order nor all different. As in the seed the first user is the admin and
\* every fourth one is blocked; most feedbacks are student 2's, a few are
\* student 3's.
ListUser(k) ==
    [id |-> k, name |-> (k * 7) % 5, email |-> k, password |-> 3,
     role |-> IF k = 1 THEN ADMIN ELSE STUDENT,
     isBlocked |-> (k % 4 = 0), createdAt |-> SeedNow, profile |-> 0, obj |-> k]

ListFeedback(k) ==
    [id |-> k, studentId |-> IF k % 12 = 0 THEN 3 ELSE 2,
     studentName |-> IF k % 12 = 0 THEN 3 ELSE 2, courseId |-> 1 + (k % 2),
     rating |-> 1 + (k % 5), message |-> 9, createdAt |-> SeedNow + ((k * 3) % 4)]

ListInit ==
    /\ \E n \in 0 .. MaxItems :
          /\ users = [k \in 1 .. n |-> ListUser(k)]
          /\ feedbacks = [k \in 1 .. n |-> ListFeedback(k)]
    /\ courses = <<SeedCourse(1)>>
    /\ now = SeedNow + 4
    /\ held = NoUser
    /\ ret = [op |-> "init", args |-> NoArgs, err |-> Ok, val |-> 0]
    /\ calls = 0
    /\ again = FALSE
    /\ pending = <<>>
    /\ settled = {}

\* one list call on each store
ListNext ==
    /\ ret.op = "init"
    /\ ListOps(1 .. MaxListPage, (1 .. MaxListLimit) \cup {Infinity})
    /\ UNCHANGED <<calls, again, pending, settled>>

ListSpec == ListInit /\ [][ListNext]_vars

(* ------------- the dashboard's aggregates on more feedback ------------- *)
MaxRated == 3

\* feedback k of a store: student 2's, on course c with rating r
RatedFeedback(k, c, r) ==
    [id |-> k, studentId |-> 2, studentName |-> 2, courseId |-> c, rating |-> r,
     message |-> 9, createdAt |-> SeedNow]

\* a store with the courses 1 and 2 and up to MaxRated feedbacks, each on
\* course 1, 2 or 3 (a course that was deleted) with any of the five ratings
StatsInit ==
    /\ users = <<SeedUser(1), SeedUser(2)>>
    /\ courses = <<SeedCourse(1), SeedCourse(2)>>
    /\ \E n \in 0 .. MaxRated :
          \E c \in [1 .. n -> 1 .. 3], r \in [1 .. n -> 1 .. 5] :
             feedbacks = [k \in 1 .. n |-> RatedFeedback(k, c[k], r[k])]
    /\ now = SeedNow
    /\ held = NoUser
    /\ ret = [op |-> "init", args |-> NoArgs, err |-> Ok, val |-> 0]
    /\ calls = 0
    /\ again = FALSE
    /\ pending = <<>>
    /\ settled = {}

\* one call of the dashboard on each store
StatsNext ==
    /\ ret.op = "init"
    /\ StatsOps
    /\ UNCHANGED <<calls, again, pending, settled>>

StatsSpec == StatsInit /\ [][StatsNext]_vars

(* ------------------ the course operations, three deep ------------------ *)
MaxCourseCalls == 3

\* the seeded store after the courses 3..10 were deleted
CourseInit ==
    /\ users = <<SeedUser(1), SeedUser(2)>>
    /\ courses = <<SeedCourse(1), SeedCourse(2)>>
    /\ \E r \in 1 .. 5 : feedbacks = <<SeedFeedback(2, 1, 1, r)>>
    /\ now = SeedNow
    /\ held = NoUser
    /\ ret = [op |-> "init", args |-> NoArgs, err |-> Ok, val |-> 0]
    /\ calls = 0
    /\ again = FALSE
    /\ pending = <<>>
    /\ settled = {}

CourseNext == Call(CourseOps, MaxCourseCalls)

CourseSpec == CourseInit /\ [][CourseNext]_vars

(* ------------- calls issued while earlier ones are pending ------------- *)
MaxAsyncCalls == 2

\* delay(data, ms): the length of the timer in units of 500 ms.  A resolved
\* value waits the default 500 ms; login and signup reject after 1000 ms,
\* changePassword after the default; the NotFound rejections are returned
\* without delay
delay(out) ==
    IF out.err = Ok THEN 1
    ELSE IF out.op \in {"login", "signup"} THEN 2
    ELSE IF out.op = "changePassword" THEN 1
    ELSE 0

\* the user objects of the store the value of the last call refers to:
\* the object login, signup, updateProfile and updateUserStatus return and
\* the elements of the array getUsers returns (the array is a copy, its
\* elements are not)
Referred ==
    IF ret'.err # Ok THEN <<>>
    ELSE CASE ret'.op = "login" -> <<held'>>
           [] ret'.op = "signup" -> <<users'[Len(users')]>>
           [] ret'.op = "updateProfile" ->
                 <<users'[FindIdx(users, LAMBDA u : u.id = ret'.args.userId)]>>
           [] ret'.op = "updateUserStatus" ->
                 <<users'[FindIdx(users, LAMBDA u : u.id = ret'.args.id)]>>
           [] ret'.op = "getUsers" ->
                 paginate(allUsers(users), ret'.args.page, ret'.args.limit).data
           [] OTHER -> <<>>

\* a referred object after a call: as the store holds it now; an object
\* the store lets go of is written no more (obj 0)
Refresh(r) ==
    IF r.obj # 0 /\ \E k \in 1 .. Len(users') : users'[k].obj = r.obj
    THEN users'[CHOOSE k \in 1 .. Len(users') : users'[k].obj = r.obj]
    ELSE [r EXCEPT !.obj = 0]

\* what the caller receives when the promise settles
Delivered(p) ==
    IF p.refs = <<>> THEN p.out.val
    ELSE IF p.out.op = "getUsers"
    THEN [p.out.val EXCEPT !.data = [k \in 1 .. Len(p.refs) |-> Content(p.refs[k])]]
    ELSE Content(p.refs[1])

\* every operation of the api, with arguments for each of its outcomes
AsyncOps ==
    \/ \E e \in {1, 9} : login(e, e)
    \/ signup(9, 1, 9)
    \/ \E i \in {1, 3} : updateProfile(i, [name |-> 9, profile |-> 9])
    \/ \E o \in {1, 9} : changePassword(1, o, 9)
    \/ updateUserStatus(1, TRUE)
    \/ deleteUser(2)
    \/ getUsers(1, Infinity)
    \/ getCourses
    \/ \E d \in CourseData : addCourse(d)
    \/ updateCourse(2, [name |-> 8])
    \/ deleteCourse(1)
    \/ addFeedback([studentId |-> 2, studentName |-> 2, courseId |-> 1, rating |-> 4,
                    message |-> 9])
    \/ updateFeedback(2, [rating |-> 2, message |-> 8])
    \/ deleteFeedback(1)
    \/ getStudentFeedback(2, 1, Infinity)
    \/ getAllFeedback(1, Infinity, [courseId |-> 0, rating |-> 0])
    \/ getDashboardStats
    \/ getCourseRatings

\* a call: the body of the operation runs when it is called, the promise
\* it returns is pending
Issue(Op) ==
    /\ calls < MaxAsyncCalls
    /\ calls' = calls + 1
    /\ Op
    /\ again' = (ret'.op = ret.op /\ ret'.args = ret.args)
    /\ pending' = Append([k \in 1 .. Len(pending) |->
                             [pending[k] EXCEPT !.refs =
                                 [j \in 1 .. Len(pending[k].refs) |->
                                     Refresh(pending[k].refs[j])]]],
                         [n |-> calls', left |-> delay(ret'), out |-> ret',
                          refs |-> Referred])
    /\ UNCHANGED settled

\* 500 ms pass; a timer that is due fires first
Tick ==
    /\ pending # <<>>
    /\ \A k \in 1 .. Len(pending) : pending[k].left > 0
    /\ pending' = [k \in 1 .. Len(pending) |-> [pending[k] EXCEPT !.left = @ - 1]]
    /\ UNCHANGED <<users, courses, feedbacks, now, held, ret, calls, again, settled>>

\* a promise whose timer does not deliver
SettleDropsRejection(k) ==
    /\ k \in 1 .. Len(pending)
    /\ pending[k].left = 0
    /\ settled' = IF pending[k].out.err = Ok
                  THEN settled \cup {[n |-> pending[k].n, op |-> pending[k].out.op,
                                      err |-> pending[k].out.err,
                                      val |-> Delivered(pending[k])]}
                  ELSE settled
    /\ pending' = [j \in 1 .. (Len(pending) - 1) |->
                      IF j < k THEN pending[j] ELSE pending[j + 1]]
    /\ UNCHANGED <<users, courses, feedbacks, now, held, ret, calls, again>>

\* the timer of a pending promise fires: resolve(data) settles it with the
\* outcome of its call
Settle(k) ==
    /\ k \in 1 .. Len(pending)
    /\ pending[k].left = 0
    /\ settled' = settled \cup {[n |-> pending[k].n, op |-> pending[k].out.op,
                                 err |-> pending[k].out.err,
                                 val |-> Delivered(pending[k])]}
    /\ pending' = [j \in 1 .. (Len(pending) - 1) |->
                      IF j < k THEN pending[j] ELSE pending[j + 1]]
    /\ UNCHANGED <<users, courses, feedbacks, now, held, ret, calls, again>>

AsyncNext ==
    \/ Issue(AsyncOps)
    \/ \E k \in 1 .. MaxAsyncCalls : Settle(k)
    \/ Tick

AsyncSpec == Init /\ [][AsyncNext]_vars

\* the event loop runs every timer that is due, and time passes
AsyncLive ==
    /\ AsyncSpec
    /\ WF_vars(\E k \in 1 .. MaxAsyncCalls : Settle(k))
    /\ WF_vars(Tick)

(* ============================== claims ================================= *)
IsCall(name) == ret'.op = name
Idx(s) == 1 .. Len(s)

\* C1: in every reachable state no two records of one collection have the
\* same id; in particular the id a create operation assigns is the id of no
\* record already in the collection, also after deletions.
Ids(s) == {s[i].id : i \in Idx(s)}
C1_IdsUnique ==
    [][/\ (IsCall("signup") /\ ret'.err = Ok) => ret'.val.id \notin Ids(users)
       /\ IsCall("addCourse") => ret'.val.id \notin Ids(courses)
       /\ IsCall("addFeedback") => ret'.val.id \notin Ids(feedbacks)]_vars

\* C2: in every reachable state no two User records have the same email.
C2_EmailsUnique == \A i, j \in Idx(users) : i # j => users[i].email # users[j].email

\* C3: Register with an email that some existing User has fails with
\* EmailExists and leaves the Users collection as it was.
C3_RegisterExistingEmail ==
    [][(IsCall("signup") /\ \E i \in Idx(users) : users[i].email = ret'.args.email)
         => (ErrorKind(ret'.err) = "EmailExists" /\ users' = users)]_vars

C3_Witness ==
    /\ ret.op = "signup"
    /\ ErrorKind(ret.err) = "EmailExists"
    /\ \E i \in Idx(users) : users[i].email = ret.args.email

\* C4: Authenticate returns the matched User only when that User is not
\* blocked, fails with AccountBlocked when the matched User is blocked, and
\* fails with InvalidCredentials when no User has both the email and the
\* password (a blocked user given a wrong password included).
Matches(e, p) == {i \in Idx(users) : users[i].email = e /\ users[i].password = p}
C4_Authenticate ==
    [][IsCall("login") =>
         LET m == Matches(ret'.args.email, ret'.args.password)
             kind == ErrorKind(ret'.err)
         IN  /\ (m = {}) <=> (kind = "InvalidCredentials")
             /\ (ret'.err = Ok) =>
                   \E i \in m : ~users[i].isBlocked /\ ret'.val = Content(users[i])
             /\ (kind = "AccountBlocked") => \E i \in m : users[i].isBlocked
             /\ \A i \in m : (\A j \in m : i <= j) =>
                   IF users[i].isBlocked THEN kind = "AccountBlocked"
                   ELSE ret'.err = Ok /\ ret'.val = Content(users[i])
             /\ ret'.err = Ok \/ kind \in {"InvalidCredentials", "AccountBlocked"}]_vars

C4_Witness ==
    /\ ret.op = "login"
    /\ ErrorKind(ret.err) = "AccountBlocked"
    /\ \E i \in Matches(ret.args.email, ret.args.password) : users[i].isBlocked

\* C5: the User record a successful Authenticate returns is a copy: no
\* later store operation changes a field of the record the caller holds.
C5_ReturnedRecordFrozen ==
    [][(held.obj # 0 /\ ~IsCall("login")) => held' = held]_vars

\* C6: UpdateUser leaves the id and the role of the updated user as they
\* were, whatever the partial fields contain.
C6_UpdateKeepsIdAndRole ==
    [][(IsCall("updateProfile") /\ ret'.err = Ok) =>
         LET i == FindIdx(users, LAMBDA u : u.id = ret'.args.userId)
         IN  /\ users'[i].id = users[i].id
             /\ users'[i].role = users[i].role
             /\ ret'.val.id = users[i].id
             /\ ret'.val.role = users[i].role]_vars

\* C7: ChangePassword fails with NotFound when no User has the id, with
\* WrongOldPassword when the old password differs, changing no password
\* in either case; on success that user's password becomes the new one.
C7_ChangePassword ==
    [][IsCall("changePassword") =>
         LET i == FindIdx(users, LAMBDA u : u.id = ret'.args.userId)
             same == \A k \in Idx(users) : users'[k].password = users[k].password
         IN  /\ Len(users') = Len(users)
             /\ (i = 0) => (ErrorKind(ret'.err) = "NotFound" /\ same)
             /\ (i # 0 /\ users[i].password # ret'.args.oldPass)
                   => (ErrorKind(ret'.err) = "WrongOldPassword" /\ same)
             /\ (i # 0 /\ users[i].password = ret'.args.oldPass)
                   => (ret'.err = Ok /\ users'[i].password = ret'.args.newPass)]_vars

\* C8: directly after DeleteUser(id) no Feedback has studentId = id, so
\* ListFeedbackByStudent(id, 1, N) is empty with total 0 for every N, and
\* the Feedback of every other student is as before.
Of(fb, student) == {k \in Idx(fb) : fb[k].studentId = student}
C8_DeleteUserCascade ==
    [][IsCall("deleteUser") =>
         /\ Of(feedbacks', ret'.args.id) = {}
         /\ \A n \in Limits :
              LET r == getStudentFeedbackResult(feedbacks', ret'.args.id, 1, n)
              IN  r.data = <<>> /\ r.total = 0
         /\ Len(feedbacks') = Len(feedbacks) - Cardinality(Of(feedbacks, ret'.args.id))
         /\ \A k \in Idx(feedbacks) : feedbacks[k].studentId # ret'.args.id =>
              feedbacks'[k - Cardinality({j \in Of(feedbacks, ret'.args.id) : j < k})]
                 = feedbacks[k]]_vars

\* the student's seeded feedback is gone, the one added for student 3 is left
C8_Witness ==
    /\ ret.op = "deleteUser"
    /\ ret.args.id = 2
    /\ calls = 2
    /\ Len(feedbacks) = 1
    /\ feedbacks[1].studentId = 3

\* C9: DeleteUser succeeds whether or not the id exists, and a second
\* DeleteUser(id) directly after the first changes no collection.
C9_DeleteUserIdempotent ==
    [][IsCall("deleteUser") =>
         /\ ret'.err = Ok
         /\ (ret.op = "deleteUser" /\ ret.args.id = ret'.args.id) =>
               (users' = users /\ courses' = courses /\ feedbacks' = feedbacks)]_vars

C9_Witness == ret.op = "deleteUser" /\ again /\ ret.err = Ok

\* C10: for every list operation, page >= 1 and finite page size >= 1:
\* total is the length of the (filtered, sorted) sequence, totalPages is
\* ceil(total / pageSize), items are the elements at the positions
\* (page-1)*pageSize+1 .. page*pageSize of that sequence, at most pageSize
\* of them, none when page > totalPages; 22 items by 5 make 5 pages of
\* 5, 5, 5, 5, 2 items and an empty page 6.
Listed ==
    CASE ret.op = "getUsers" ->
            [k \in Idx(users) |-> Content(allUsers(users)[k])]
      [] ret.op = "getStudentFeedback" -> studentFeedbacks(feedbacks, ret.args.studentId)
      [] ret.op = "getAllFeedback" -> filteredFeedbacks(feedbacks, ret.args.filters)

C10_Pagination ==
    (ret.op \in {"getUsers", "getStudentFeedback", "getAllFeedback"}
       /\ ret.args.limit # Infinity) =>
      LET page == ret.args.page
          size == ret.args.limit
          items == ret.val.data
          total == ret.val.total
          pages == ret.val.totalPages
      IN  /\ ret.err = Ok
          /\ total = Len(Listed)
          /\ pages * size >= total
          /\ (pages = 0 /\ total = 0) \/ (pages >= 1 /\ (pages - 1) * size < total)
          /\ Len(items) <= size
          /\ \A k \in 1 .. size :
                LET pos == (page - 1) * size + k
                IN  IF pos <= total THEN k <= Len(items) /\ items[k] = Listed[pos]
                    ELSE Len(items) < k
          /\ (page > pages) => items = <<>>
          /\ (total = 22 /\ size = 5) =>
                /\ pages = 5
                /\ (page \in 1 .. 4) => Len(items) = 5
                /\ (page = 5) => Len(items) = 2
                /\ (page = 6) => Len(items) = 0

\* a student's 22 items, 5 to a page, page 5
C10_Witness ==
    /\ ret.op = "getStudentFeedback"
    /\ ret.val.total = 22
    /\ ret.args.limit = 5
    /\ ret.args.page = 5
    /\ Len(ret.val.data) = 2

\* C11: a list operation called with page 1 and an unbounded page size
\* returns the whole filtered, sorted sequence as one page: totalPages is 1
\* when the result is not empty.
C11_UnboundedPageSize ==
    (ret.op \in {"getUsers", "getStudentFeedback", "getAllFeedback"}
       /\ ret.args.limit = Infinity /\ ret.args.page = 1) =>
      /\ ret.val.data = Listed
      /\ ret.val.total = Len(Listed)
      /\ (Len(Listed) > 0) => ret.val.totalPages = 1

\* the position in the whole listing of the k-th item of the returned page
Position(k) ==
    IF ret.args.limit = Infinity THEN k ELSE (ret.args.page - 1) * ret.args.limit + k

\* C12: getUsers pages through the whole users collection, admins and
\* students, blocked or not, in ascending order of name: total is the number
\* of users, every item is a user of the store (without its password), the
\* names on a page never decrease, the item at position p of the listing has
\* fewer than p users with a smaller name and at least p users with a name
\* not greater, and an unbounded first page holds every user.
C12_ListUsers ==
    (ret.op = "getUsers") =>
      LET items == ret.val.data
      IN  /\ ret.err = Ok
          /\ ret.val.total = Len(users)
          /\ \A k \in Idx(items) : \E i \in Idx(users) : items[k] = Content(users[i])
          /\ \A i, j \in Idx(items) : i < j => items[i].name <= items[j].name
          /\ \A k \in Idx(items) :
                /\ Cardinality({i \in Idx(users) : users[i].name < items[k].name}) < Position(k)
                /\ Cardinality({i \in Idx(users) : users[i].name <= items[k].name}) >= Position(k)
          /\ (ret.args.limit = Infinity /\ ret.args.page = 1) =>
                \A i \in Idx(users) : \E k \in Idx(items) : items[k] = Content(users[i])

\* a page of a store that is not in order of name and holds the admin and
\* blocked students, all of them returned
C12_Witness ==
    /\ ret.op = "getUsers"
    /\ ret.args.limit = Infinity
    /\ ret.args.page = 1
    /\ Len(users) >= 5
    /\ users[1].name > users[3].name
    /\ \E k \in Idx(ret.val.data) : ret.val.data[k].role = ADMIN
    /\ \E k \in Idx(ret.val.data) : ret.val.data[k].isBlocked
    /\ ret.val.data[1].name < ret.val.data[Len(users)].name

\* C13: getStudentFeedback considers exactly the feedbacks whose studentId
\* is the argument: total is their number, every item is one of them, and
\* they come in descending order of createdAt whatever their order in the
\* store: dates on a page never increase, and the item at position p has
\* fewer than p of the student's feedbacks with a later date and at least p
\* with a date not earlier.
C13_ListFeedbackByStudent ==
    (ret.op = "getStudentFeedback") =>
      LET items == ret.val.data
          mine == {i \in Idx(feedbacks) : feedbacks[i].studentId = ret.args.studentId}
      IN  /\ ret.err = Ok
          /\ ret.val.total = Cardinality(mine)
          /\ \A k \in Idx(items) : \E i \in mine : items[k] = feedbacks[i]
          /\ \A i, j \in Idx(items) : i < j => items[i].createdAt >= items[j].createdAt
          /\ \A k \in Idx(items) :
                /\ Cardinality({i \in mine : feedbacks[i].createdAt > items[k].createdAt})
                      < Position(k)
                /\ Cardinality({i \in mine : feedbacks[i].createdAt >= items[k].createdAt})
                      >= Position(k)
          /\ (ret.args.limit = Infinity /\ ret.args.page = 1) =>
                \A i \in mine : \E k \in Idx(items) : items[k] = feedbacks[i]

\* student 2's feedbacks listed from a store that also holds student 3's and
\* keeps some of student 2's in ascending order of date
C13_Witness ==
    /\ ret.op = "getStudentFeedback"
    /\ ret.args.studentId = 2
    /\ \E i \in Idx(feedbacks) : feedbacks[i].studentId = 3
    /\ \E i, j \in Idx(feedbacks) :
          /\ i < j
          /\ feedbacks[i].studentId = 2
          /\ feedbacks[j].studentId = 2
          /\ feedbacks[i].createdAt < feedbacks[j].createdAt
    /\ ret.val.total < Len(feedbacks)
    /\ Len(ret.val.data) >= 2
    /\ ret.val.data[1].createdAt > ret.val.data[Len(ret.val.data)].createdAt

\* C14: getAllFeedback considers exactly the feedbacks that match every
\* condition of the filter (courseId equal when a courseId is given and
\* rating equal when a rating is given, every record when neither is):
\* total is their number, before pagination, every item is one of them, and
\* they come in descending order of createdAt.
Match(f, filters) ==
    /\ (filters.courseId # 0) => f.courseId = filters.courseId
    /\ (filters.rating # 0) => f.rating = filters.rating

C14_ListAllFeedback ==
    (ret.op = "getAllFeedback") =>
      LET items == ret.val.data
          matching == {i \in Idx(feedbacks) : Match(feedbacks[i], ret.args.filters)}
      IN  /\ ret.err = Ok
          /\ ret.val.total = Cardinality(matching)
          /\ \A k \in Idx(items) : \E i \in matching : items[k] = feedbacks[i]
          /\ \A i, j \in Idx(items) : i < j => items[i].createdAt >= items[j].createdAt
          /\ \A k \in Idx(items) :
                /\ Cardinality({i \in matching : feedbacks[i].createdAt > items[k].createdAt})
                      < Position(k)
                /\ Cardinality({i \in matching : feedbacks[i].createdAt >= items[k].createdAt})
                      >= Position(k)
          /\ (ret.args.limit = Infinity /\ ret.args.page = 1) =>
                \A i \in matching : \E k \in Idx(items) : items[k] = feedbacks[i]
          /\ (ret.args.filters.courseId = 0 /\ ret.args.filters.rating = 0) =>
                ret.val.total = Len(feedbacks)

\* both conditions given, on a store where some records match only the
\* course and some only the rating; the second page of the matching ones
C14_Witness ==
    /\ ret.op = "getAllFeedback"
    /\ ret.args.filters.courseId = 1
    /\ ret.args.filters.rating = 4
    /\ \E i \in Idx(feedbacks) : feedbacks[i].courseId = 1 /\ feedbacks[i].rating # 4
    /\ \E i \in Idx(feedbacks) : feedbacks[i].courseId # 1 /\ feedbacks[i].rating = 4
    /\ ret.val.total = 2
    /\ ret.args.limit = 1
    /\ ret.args.page = 2
    /\ Len(ret.val.data) = 1

\* C15: addFeedback puts the new record at the front of the feedbacks and
\* keeps the order of the records that were there; after two calls in a
\* row the collection starts with the two new records, the newer first.
C15_CreateFeedbackAtFront ==
    [][IsCall("addFeedback") =>
          /\ ret'.err = Ok
          /\ Len(feedbacks') = Len(feedbacks) + 1
          /\ feedbacks'[1] = ret'.val
          /\ \A k \in Idx(feedbacks) : feedbacks'[k + 1] = feedbacks[k]
          /\ (ret.op = "addFeedback") => feedbacks'[2] = ret.val]_vars

\* two feedbacks added one after the other to the seeded one
C15_Witness ==
    /\ ret.op = "addFeedback"
    /\ calls = 2
    /\ Len(feedbacks) = 3
    /\ feedbacks[1] = ret.val
    /\ feedbacks[1].id = 3
    /\ feedbacks[2].id = 2
    /\ feedbacks[3] \in {SeedFeedback(2, 1, 1, r) : r \in 1 .. 5}

\* C16: in every reachable state the rating of every feedback is an
\* integer from 1 to 5.
C16_RatingInRange == \A i \in Idx(feedbacks) : feedbacks[i].rating \in 1 .. 5

\* C17: getDashboardStats returns the number of users whose role is STUDENT
\* (admins left out, blocked students counted), the number of feedbacks and
\* the number of courses of the store it is called on.
C17_DashboardStats ==
    (ret.op = "getDashboardStats") =>
      LET students == {i \in Idx(users) : users[i].role = STUDENT}
          admins == {i \in Idx(users) : users[i].role = ADMIN}
      IN  /\ ret.err = Ok
          /\ ret.val.studentCount = Cardinality(students)
          /\ ret.val.studentCount = Len(users) - Cardinality(admins)
          /\ ret.val.studentCount >=
                Cardinality({i \in Idx(users) : users[i].isBlocked /\ users[i].role = STUDENT})
          /\ ret.val.feedbackCount = Len(feedbacks)
          /\ ret.val.courseCount = Len(courses)

\* the stats of a store whose only student is blocked, next to the admin
C17_Witness ==
    /\ ret.op = "getDashboardStats"
    /\ Len(users) = 2
    /\ \E i \in Idx(users) : users[i].role = ADMIN
    /\ \E i \in Idx(users) : users[i].role = STUDENT /\ users[i].isBlocked
    /\ ret.val.studentCount = 1
    /\ ret.val.feedbackCount = 1
    /\ ret.val.courseCount = 1

\* C18: getCourseRatings returns one entry for each course, whose average
\* is the sum of the ratings of the feedbacks with the course's id divided
\* by their number and rounded to two decimals (a multiple of 0.01 at most
\* 0.005 away from the quotient), and 0 for a course without feedback;
\* the courses 1 and 2 with the ratings 4 and 2 on course 1 and 5 on course
\* 2 get 3.00 and 5.00.  Averages are in hundredths.
RECURSIVE SumOfRatings(_)
SumOfRatings(S) ==
    IF S = {} THEN 0
    ELSE LET i == CHOOSE i \in S : TRUE
         IN  feedbacks[i].rating + SumOfRatings(S \ {i})

IsAverage(avg, courseId) ==
    LET given == {i \in Idx(feedbacks) : feedbacks[i].courseId = courseId}
        n == Cardinality(given)
        gap == 100 * SumOfRatings(given) - avg * n
    IN  IF n = 0 THEN avg = 0
        ELSE /\ 2 * gap <= n
             /\ 2 * (0 - gap) <= n

C18_CourseRatings ==
    (ret.op = "getCourseRatings") =>
      /\ ret.err = Ok
      /\ Len(ret.val) = Len(courses)
      /\ \A i \in Idx(courses) :
            \E k \in Idx(ret.val) :
               /\ ret.val[k].name = courses[i].name
               /\ IsAverage(ret.val[k].avgRating, courses[i].id)
      /\ \A k \in Idx(ret.val) : \E i \in Idx(courses) : ret.val[k].name = courses[i].name
      /\ (/\ Len(feedbacks) = 3
          /\ \A i \in Idx(courses) : courses[i].name = courses[i].id
          /\ {<<feedbacks[i].courseId, feedbacks[i].rating>> : i \in Idx(feedbacks)}
                = {<<1, 4>>, <<1, 2>>, <<2, 5>>}) =>
            \A k \in Idx(ret.val) :
               /\ (ret.val[k].name = 1) => ret.val[k].avgRating = 300
               /\ (ret.val[k].name = 2) => ret.val[k].avgRating = 500

\* the ratings 5, 5 and 4 on course 1, whose average 4.666... is rounded up
\* to 4.67, and none on course 2
C18_Witness ==
    /\ ret.op = "getCourseRatings"
    /\ Len(feedbacks) = 3
    /\ \A i \in Idx(feedbacks) : feedbacks[i].courseId = 1
    /\ SumOfRatings(Idx(feedbacks)) = 14
    /\ Len(ret.val) = 2
    /\ ret.val[1] = [name |-> 1, avgRating |-> 467]
    /\ ret.val[2] = [name |-> 2, avgRating |-> 0]

\* C19: the entries getCourseRatings returns are in descending order of
\* average: an earlier entry's average is never less than a later one's.
C19_CourseRatingsSorted ==
    (ret.op = "getCourseRatings") =>
      \A i, j \in Idx(ret.val) : i < j => ret.val[i].avgRating >= ret.val[j].avgRating

\* course 2, the second of the store, comes first with the higher average
C19_Witness ==
    /\ ret.op = "getCourseRatings"
    /\ courses[1].name = 1
    /\ Len(ret.val) = 2
    /\ ret.val[1].name = 2
    /\ ret.val[2].name = 1
    /\ ret.val[1].avgRating > ret.val[2].avgRating
    /\ ret.val[2].avgRating > 0

\* C20: deleteCourse always succeeds and removes the courses with the id
\* and nothing else: the other courses stay in their order, users and
\* feedbacks are unchanged, and a feedback given to the deleted course is
\* still returned by getAllFeedback and by its student's getStudentFeedback.
InData(f, result) == \E k \in Idx(result.data) : result.data[k] = f

C20_DeleteCourseNoCascade ==
    [][IsCall("deleteCourse") =>
          /\ ret'.err = Ok
          /\ users' = users
          /\ feedbacks' = feedbacks
          /\ \A i \in Idx(courses') : courses'[i].id # ret'.args.id
          /\ courses' = SelectSeq(courses, LAMBDA c : c.id # ret'.args.id)
          /\ \A i \in Idx(feedbacks) :
                (feedbacks[i].courseId = ret'.args.id) =>
                   /\ InData(feedbacks[i],
                             getAllFeedbackResult(feedbacks', 1, Infinity,
                                                  [courseId |-> 0, rating |-> 0]))
                   /\ InData(feedbacks[i],
                             getAllFeedbackResult(feedbacks', 1, Infinity,
                                                  [courseId |-> ret'.args.id, rating |-> 0]))
                   /\ InData(feedbacks[i],
                             getStudentFeedbackResult(feedbacks', feedbacks[i].studentId,
                                                      1, Infinity))]_vars

\* course 1 deleted from the seeded store, its feedback still there
C20_Witness ==
    /\ ret.op = "deleteCourse"
    /\ ret.args.id = 1
    /\ calls = 1
    /\ courses = <<>>
    /\ Len(users) = 2
    /\ \E i \in Idx(feedbacks) : feedbacks[i].courseId = 1

\* C21: addCourse returning a course, then updateCourse of the new id with
\* {name: X}, then a lookup of the id in what getCourses lists, gives
\* exactly one record for the id, with the name X and the other fields of
\* the created course; every other course is as it was before the update.
C21_CreateUpdateLookup ==
    [][(/\ ret.op = "addCourse"
        /\ IsCall("updateCourse")
        /\ ret'.args.id = ret.val.id
        /\ ret'.args.data = [name |-> 8]) =>
          LET found == SelectSeq(courses', LAMBDA c : c.id = ret.val.id)
          IN  /\ ret'.err = Ok
              /\ Len(found) = 1
              /\ found[1] = [ret.val EXCEPT !.name = 8]
              /\ Len(courses') = Len(courses)
              /\ \A k \in Idx(courses) :
                    (courses[k] # ret.val) => courses'[k] = courses[k]]_vars

\* C22: updateProfile, updateUserStatus, updateCourse and updateFeedback
\* called with an id no record of their collection has reject with
\* NotFound, and every rejected call, of whatever error kind, leaves the
\* three collections exactly as they were.
ErrorKinds == {"NotFound", "EmailExists", "InvalidCredentials", "AccountBlocked",
               "WrongOldPassword"}

C22_RejectionsChangeNothing ==
    [][/\ (ret'.err # Ok) =>
             /\ ErrorKind(ret'.err) \in ErrorKinds
             /\ users' = users
             /\ courses' = courses
             /\ feedbacks' = feedbacks
       /\ (IsCall("updateProfile") /\ ret'.args.userId \notin Ids(users)) =>
             ErrorKind(ret'.err) = "NotFound"
       /\ (IsCall("updateUserStatus") /\ ret'.args.id \notin Ids(users)) =>
             ErrorKind(ret'.err) = "NotFound"
       /\ (IsCall("updateCourse") /\ ret'.args.id \notin Ids(courses)) =>
             ErrorKind(ret'.err) = "NotFound"
       /\ (IsCall("updateFeedback") /\ ret'.args.id \notin Ids(feedbacks)) =>
             ErrorKind(ret'.err) = "NotFound"]_vars

\* updateFeedback of the feedback that was just deleted
C22_Witness ==
    /\ ret.op = "updateFeedback"
    /\ ret.args.id = 1
    /\ ErrorKind(ret.err) = "NotFound"
    /\ calls = 2
    /\ feedbacks = <<>>
    /\ Len(users) = 2
    /\ Len(courses) = 1

\* C23: studentName is a snapshot: updateProfile changes no feedback, so
\* the feedbacks of a renamed student keep the name they were given with.
C23_StudentNameSnapshot ==
    [][IsCall("updateProfile") =>
          /\ feedbacks' = feedbacks
          /\ \A k \in Idx(feedbacks) :
                feedbacks'[k].studentName = feedbacks[k].studentName]_vars

\* the student renamed, the feedback still under the old name
C23_Witness ==
    /\ ret.op = "updateProfile"
    /\ ret.err = Ok
    /\ "name" \in DOMAIN ret.args.data
    /\ \E i \in Idx(users), k \in Idx(feedbacks) :
          /\ users[i].id = ret.args.userId
          /\ users[i].name = ret.args.data.name
          /\ feedbacks[k].studentId = users[i].id
          /\ feedbacks[k].studentName # users[i].name

\* how a collection may differ after a call
\* new is old without the records that are Gone, the others in their order
Dropped(old, new, Gone(_)) ==
    LET gone(k) == Cardinality({j \in 1 .. k : Gone(old[j])})
    IN  /\ Len(new) = Len(old) - gone(Len(old))
        /\ \A k \in Idx(old) : ~Gone(old[k]) => new[k - gone(k)] = old[k]

\* new is old with the first record of the id replaced where it stood
Replaced(old, new, id) ==
    /\ Len(new) = Len(old)
    /\ \A k \in Idx(old) : (old[k].id # id) => new[k] = old[k]
    /\ \E i \in Idx(old) : old[i].id = id /\ \A j \in 1 .. (i - 1) : old[j].id # id

\* new is old but for one field of its records
SameBut(old, new, field) ==
    /\ Len(new) = Len(old)
    /\ \A k \in Idx(old) : [new[k] EXCEPT ![field] = old[k][field]] = old[k]

\* C26: every operation keeps the relative order of the records of each
\* collection: an update keeps the updated record at its position and
\* every other record where it was, a delete keeps the remaining records
\* in their order, a create leaves the records that were there in their
\* order, and the operations that sort (getUsers, getStudentFeedback,
\* getAllFeedback, getCourseRatings) and the other reads leave the stored
\* collections unchanged.
C26_OrderPreserved ==
    [][/\ (IsCall("updateProfile") /\ ret'.err = Ok) =>
             /\ Replaced(users, users', ret'.args.userId)
             /\ \A k \in Idx(users) :
                   (users[k].id = ret'.args.userId) => Content(users'[k]) = ret'.val
       /\ (IsCall("updateCourse") /\ ret'.err = Ok) =>
             /\ Replaced(courses, courses', ret'.args.id)
             /\ \A k \in Idx(courses) :
                   (courses[k].id = ret'.args.id) => courses'[k] = ret'.val
       /\ (IsCall("updateFeedback") /\ ret'.err = Ok) =>
             /\ Replaced(feedbacks, feedbacks', ret'.args.id)
             /\ \A k \in Idx(feedbacks) :
                   (feedbacks[k].id = ret'.args.id) => feedbacks'[k] = ret'.val
       /\ IsCall("updateUserStatus") => SameBut(users, users', "isBlocked")
       /\ IsCall("changePassword") => SameBut(users, users', "password")
       /\ IsCall("deleteUser") =>
             /\ Dropped(users, users', LAMBDA u : u.id = ret'.args.id)
             /\ Dropped(feedbacks, feedbacks', LAMBDA f : f.studentId = ret'.args.id)
       /\ IsCall("deleteCourse") =>
             Dropped(courses, courses', LAMBDA c : c.id = ret'.args.id)
       /\ IsCall("deleteFeedback") =>
             Dropped(feedbacks, feedbacks', LAMBDA f : f.id = ret'.args.id)
       /\ IsCall("signup") => \A k \in Idx(users) : users'[k] = users[k]
       /\ IsCall("addCourse") => \A k \in Idx(courses) : courses'[k] = courses[k]
       /\ IsCall("addFeedback") => \A k \in Idx(feedbacks) : feedbacks'[k + 1] = feedbacks[k]
       /\ (\/ IsCall("getUsers") \/ IsCall("getStudentFeedback") \/ IsCall("getAllFeedback")
           \/ IsCall("getCourseRatings") \/ IsCall("getDashboardStats") \/ IsCall("getCourses")
           \/ IsCall("login")) =>
             /\ users' = users
             /\ courses' = courses
             /\ feedbacks' = feedbacks
       /\ (~IsCall("deleteUser") /\ ~IsCall("addFeedback") /\ ~IsCall("deleteFeedback")
           /\ ~IsCall("updateFeedback")) => feedbacks' = feedbacks
       /\ (~IsCall("addCourse") /\ ~IsCall("deleteCourse") /\ ~IsCall("updateCourse")) =>
             courses' = courses]_vars

\* the users listed by name from a store that is not in order of name,
\* which stays as it was
C26_Witness ==
    /\ ret.op = "getUsers"
    /\ calls = 2
    /\ Len(users) = 2
    /\ users[1].id = 1
    /\ users[1].name > users[2].name
    /\ ret.val.data # <<>>
    /\ ret.val.data[1] = Content(users[2])

\* C27: once a user is blocked, login with the user's email and current
\* password is rejected with AccountBlocked until updateUserStatus(id,
\* false) or deleteUser(id): a call that is neither of the two leaves a
\* blocked user in the store and blocked, and login with the credentials
\* of a blocked user is rejected as blocked.
C27_BlockedUntilUnblocked ==
    [][/\ \A i \in Idx(users) :
             (/\ users[i].isBlocked
              /\ ~(/\ IsCall("updateUserStatus")
                   /\ ret'.args.id = users[i].id
                   /\ ret'.args.isBlocked = FALSE)
              /\ ~(IsCall("deleteUser") /\ ret'.args.id = users[i].id)) =>
                IF IsCall("deleteUser")
                THEN \E j \in Idx(users') : users'[j] = users[i]
                ELSE i \in Idx(users') /\ users'[i].isBlocked
       /\ (/\ IsCall("login")
           /\ \E i \in Idx(users) :
                 /\ users[i].isBlocked
                 /\ users[i].email = ret'.args.email
                 /\ users[i].password = ret'.args.password) =>
             ErrorKind(ret'.err) = "AccountBlocked"]_vars

\* C29: when addFeedback and updateFeedback are only called with the id of
\* a user that exists at the call, the studentId of every feedback is the
\* id of an existing user, and of one user only, in every reachable state:
\* no call that keeps to that condition takes a store where it holds to a
\* store where it does not.
Owned(us, fb) ==
    \A k \in Idx(fb) : Cardinality({i \in Idx(us) : us[i].id = fb[k].studentId}) = 1

C29_FeedbackOwnerExists ==
    [][(/\ Owned(users, feedbacks)
        /\ IsCall("addFeedback") => ret'.args.data.studentId \in Ids(users)
        /\ (IsCall("updateFeedback") /\ "studentId" \in DOMAIN ret'.args.data) =>
              ret'.args.data.studentId \in Ids(users)) =>
          Owned(users', feedbacks')]_vars

\* C30: in a run from the seeded store without deleteUser, deleteCourse,
\* deleteFeedback and without an update that supplies an id, the id that
\* signup, addCourse and addFeedback assign is the id of no record of the
\* collection, and no two records of a collection have the same id in any
\* state.  The seed numbers each collection 1 .. length; the start state
\* does so, and every call of such a run keeps it so.
UniqueIds(s) == \A i, j \in Idx(s) : i # j => s[i].id # s[j].id
Numbered(s) == Ids(s) = 1 .. Len(s) /\ UniqueIds(s)

C30_IdsUniqueWithoutDeletes ==
    /\ Numbered(users) /\ Numbered(courses) /\ Numbered(feedbacks)
    /\ [][(/\ Numbered(users) /\ Numbered(courses) /\ Numbered(feedbacks)
           /\ ~IsCall("deleteUser") /\ ~IsCall("deleteCourse") /\ ~IsCall("deleteFeedback")
           /\ IsCall("updateProfile") => "id" \notin DOMAIN ret'.args.data
           /\ IsCall("updateCourse") => "id" \notin DOMAIN ret'.args.data
           /\ IsCall("updateFeedback") => "id" \notin DOMAIN ret'.args.data) =>
             /\ Numbered(users') /\ Numbered(courses') /\ Numbered(feedbacks')
             /\ (IsCall("signup") /\ ret'.err = Ok) => ret'.val.id \notin Ids(users)
             /\ IsCall("addCourse") => ret'.val.id \notin Ids(courses)
             /\ IsCall("addFeedback") => ret'.val.id \notin Ids(feedbacks)]_vars

\* two courses and a feedback added to the seeded ones
C30_Witness ==
    /\ ret.op = "addCourse"
    /\ calls = 2
    /\ Len(courses) = 3
    /\ ret.val.id = 3
    /\ courses[3] = ret.val
    /\ Ids(courses) = {1, 2, 3}
    /\ Len(users) = 2

\* C28: getCourseRatings returns one entry for each record of courses, as
\* many as the courseCount of getDashboardStats on the same store; a
\* feedback whose courseId is the id of no course adds no entry and changes
\* no average: the result is the one the store gives without such feedback.
C28_OneEntryPerCourse ==
    (ret.op = "getCourseRatings") =>
      LET known == SelectSeq(feedbacks, LAMBDA f : f.courseId \in Ids(courses))
      IN  /\ Len(ret.val) = Len(courses)
          /\ Len(ret.val) = getDashboardStatsResult(users, courses, feedbacks).courseCount
          /\ \A i \in Idx(courses) :
                Cardinality({k \in Idx(ret.val) : ret.val[k].name = courses[i].name})
                   = Cardinality({j \in Idx(courses) : courses[j].name = courses[i].name})
          /\ \A k \in Idx(ret.val) : \E i \in Idx(courses) : ret.val[k].name = courses[i].name
          /\ ret.val = courseRatings(courses, known)

\* a rating of 5 on a course that is gone next to a rating of 1 on course 1
C28_Witness ==
    /\ ret.op = "getCourseRatings"
    /\ Len(courses) = 2
    /\ \E k \in Idx(feedbacks) :
          feedbacks[k].courseId \notin Ids(courses) /\ feedbacks[k].rating = 5
    /\ \E k \in Idx(feedbacks) : feedbacks[k].courseId = 1 /\ feedbacks[k].rating = 1
    /\ Len(feedbacks) = 2
    /\ ret.val = <<[name |-> 1, avgRating |-> 100], [name |-> 2, avgRating |-> 0]>>

\* C24: every call eventually completes with exactly one outcome: its
\* promise either resolves with a value or rejects with one error kind,
\* never both and never neither, and none stays pending for ever: a call
\* that was made is pending or settled, settled with one outcome and once,
\* and no call is pending from some state on.
Resolved(s) == s.err = Ok
Rejected(s) == ErrorKind(s.err) \in ErrorKinds /\ s.val = 0

C24_EveryCallSettlesOnce ==
    /\ [](/\ \A s \in settled : Resolved(s) # Rejected(s)
          /\ \A s, t \in settled : (s.n = t.n) => s = t
          /\ \A j, k \in Idx(pending) : (pending[j].n = pending[k].n) => j = k
          /\ \A s \in settled : \A k \in Idx(pending) : pending[k].n # s.n
          /\ {s.n : s \in settled} \cup {pending[k].n : k \in Idx(pending)} = 1 .. calls)
    /\ \A n \in 1 .. MaxAsyncCalls :
          []<>(\A k \in Idx(pending) : pending[k].n # n)

\* two calls issued together, one resolved and one rejected, none pending
C24_Witness ==
    /\ calls = 2
    /\ pending = <<>>
    /\ \E s, t \in settled :
          /\ s.n = 1 /\ s.op = "login" /\ Rejected(s)
          /\ t.n = 2 /\ t.op = "getDashboardStats" /\ Resolved(t)

\* C25: every operation reads and writes the collections in one step when
\* it is called, so calls issued while earlier ones are pending give the
\* state and the results of the same calls made one after the other: the
\* outcome a promise delivers is the outcome its call had when it was made.
C25_ResultsAsIssued ==
    [][\A s \in settled' \ settled :
          \E k \in Idx(pending) :
             /\ pending[k].n = s.n
             /\ s.err = pending[k].out.err
             /\ s.val = pending[k].out.val]_vars
====
